---- MODULE Spec2Model ----
(***************************************************************************)
(* net-bouncer (multi-port honeypot), src/net-bouncer.c lines 1-307.      *)
(*                                                                         *)
(* The model follows main(): option parsing, opening of the log, the      *)
(* listener setup loop, the installation of the signal handlers, the      *)
(* poll/accept/log/close event loop and the closing loop.  The operating  *)
(* system is the environment: it queues connections on the listeners,     *)
(* withdraws them, delivers termination signals and makes system calls    *)
(* fail.  The signal handler runs between any two steps of main() once    *)
(* its signal has a handler installed.                                    *)
(***************************************************************************)
EXTENDS Integers, Sequences, FiniteSets, TLC

VARIABLES
    argv,               \* the command line: [ports, log, family, unknown]
    pc,                 \* position of main()
    ret,                \* value main() is about to return
    exitStatus,         \* exit status of the process, -1 while it runs
    global_running,     \* line 60
    global_log_file,    \* line 61
    global_log,         \* line 62: "NULL", "stderr" or "file"
    global_level,       \* line 63
    global_family,      \* line 64
    global_ports,       \* line 65 (the first global_port_count entries)
    global_port_count,  \* line 66
    wait_list,          \* line 248: the entries written so far (the rest are zero, line 249)
    p,                  \* the loop index of the for loop main() is in
    events,             \* line 273
    client,             \* line 289
    errno,              \* errno as left by the last failed system call
    handlers,           \* signals that have signal_handler installed
    openFds,            \* descriptors open in the process
    bound,              \* <<descriptor, port>> of the sockets bound and listening
    backlog,            \* listener index -> connections waiting to be accepted
    conns,              \* accepted connections and what was done to each
    closeCalls,         \* close() calls made on descriptors, in order
    log,                \* what has been written to global_log, write by write
    logq,               \* records main() is in the middle of writing
    logpos,             \* writes of Head(logq) already made
    envCount            \* environment events so far

vars == <<argv, pc, ret, exitStatus, global_running, global_log_file,
          global_log, global_level, global_family, global_ports,
          global_port_count, wait_list, p, events, client, errno, handlers,
          openFds, bound, backlog, conns, closeCalls, log, logq, logpos,
          envCount>>

(***************************************************************************)
(* Bounds of the model.                                                    *)
(***************************************************************************)
MaxArgPorts == 2        \* -p options on the command line
MaxEnv == 3             \* arrivals, signals and injected faults in one run

(***************************************************************************)
(* Program constants.                                                      *)
(***************************************************************************)
LOG_ERROR == 0
LOG_WARNING == 1
LOG_INFO == 2
LOG_DEBUG == 3
MAX_CONNECTIONS == 50
MAX_PORTS == 50
MAX_PORT_NUMBER == 65535
EINVAL == 22
EINTR == 4
ENOMEM == 12
EACCES == 13
EMFILE == 24
SIGTERM == 15
SIGABRT == 6
SIGINT == 2
STDERR_FILENO == 2
AF_INET == "AF_INET"
AF_INET6 == "AF_INET6"
POLLIN == "POLLIN"
POLLERR == "POLLERR"
SizeofSockaddrIn == 16
SizeofSockaddrIn6 == 28

Signals == {SIGTERM, SIGABRT, SIGINT}

\* Values atoi() yields for the -p arguments tried: two usable ports and
\* the two nearest values create_server refuses.
PortValues == {0, 22, 23, MAX_PORT_NUMBER + 1}

\* The remote peer of each family: its address as text, the length of
\* that text, and its (ephemeral) port, 258 = 0x0102.
Clients(family) ==
    IF family = AF_INET6
      THEN { [addr |-> "2001:db8:85a3:1234:5678:8a2e:370:7334", len |-> 37, port |-> 258] }
      ELSE { [addr |-> "64.25.33.120", len |-> 12, port |-> 258] }

SeqsUpTo(S, n) == UNION { [1..k -> S] : k \in 0..n }

(***************************************************************************)
(* Byte order.  htons() stores a port in network (big-endian) order; a    *)
(* 16-bit field read without ntohs() yields the bytes in host order.      *)
(***************************************************************************)
Swap16(x) == (x % 256) * 256 + (x \div 256)

\* the hosts the program is built for store integers low byte first
HostBigEndian == FALSE

htons(x) == IF HostBigEndian THEN x % 65536 ELSE Swap16(x % 65536)

\* the sin_port / sin6_port field of the peer address filled in by accept()
sin_port(c) == htons(c.port)

(***************************************************************************)
(* Logger.                                                                 *)
(***************************************************************************)
Record(level, fmt, addr, num) ==
    [level |-> level, fmt |-> fmt, addr |-> addr, num |-> num]

\* the test of line 77 with the threshold itself shut out
EmitsBelowThreshold(level) == ~(level >= global_level \/ level < 0)

\* line 77: the test that lets a record through
Emits(level) == ~(level > global_level \/ level < 0)

\* log_message, lines 75-95: the records one call writes
log_message(level, fmt, addr, num) ==
    IF Emits(level) THEN << Record(level, fmt, addr, num) >> ELSE << >>

\* lines 86, 91, 93: the three writes that make up one record
Writes(rec, ctx) ==
    [ i \in 1..3 |-> [part |-> i, rec |-> rec, ctx |-> ctx] ]

\* log_error, lines 111-114
log_error(message, err) == log_message(LOG_ERROR, message, "", err)

\* inet_ntop(af, src, dst, size): the text, or failure (dst left as it
\* was, i.e. uninitialised stack) when text and terminator exceed size.
inet_ntop(textLen, text, size) ==
    IF textLen + 1 <= size THEN {text} ELSE {"", "<indeterminate>"}

\* log_connection_ipv4, lines 97-102
log_connection_ipv4(level, source, address) ==
    log_message(level, "Connection from %s on port %d", address, sin_port(source))

\* log_connection_ipv6, lines 104-109
log_connection_ipv6(level, source, address) ==
    log_message(level, "Connection from %s on port %d", address, sin_port(source))

(***************************************************************************)
(* Descriptors.                                                            *)
(***************************************************************************)
FdSpace == (STDERR_FILENO + 1)..(STDERR_FILENO + MaxArgPorts + 3)

\* socket(), fopen() and accept() return the lowest unused descriptor
NewFd(open) ==
    CHOOSE n \in FdSpace : n \notin open /\ \A m \in FdSpace : m < n => m \in open

ZeroPollfd == [fd |-> 0, events |-> {}, revents |-> {}]

\* wait_list[i] for an index inside the array: line 249 zeroes every entry
Entry(i) == IF i \in DOMAIN wait_list THEN wait_list[i] ELSE ZeroPollfd

(***************************************************************************)
(* Init: the state at entry to main(), for each command line tried.       *)
(***************************************************************************)
Init ==
    /\ argv \in [ ports : SeqsUpTo(PortValues, MaxArgPorts),
                  log : {"none", "writable", "unwritable"},
                  family : {AF_INET, AF_INET6},
                  unknown : BOOLEAN ]
    /\ pc = "parse_options"
    /\ ret = 0
    /\ exitStatus = -1
    /\ global_running = TRUE
    /\ global_log_file = "NULL"
    /\ global_log = "NULL"
    /\ global_level = LOG_INFO
    /\ global_family = AF_INET
    /\ global_ports = << >>
    /\ global_port_count = 0
    /\ wait_list = << >>
    /\ p = 0
    /\ events = 0
    /\ client = 0
    /\ errno = 0
    /\ handlers = {}
    /\ openFds = {}
    /\ bound = {}
    /\ backlog = [ i \in 0..(MaxArgPorts - 1) |-> << >> ]
    /\ conns = << >>
    /\ closeCalls = << >>
    /\ log = << >>
    /\ logq = << >>
    /\ logpos = 0
    /\ envCount = 0

(***************************************************************************)
(* Startup.                                                                *)
(***************************************************************************)
\* parse_options, lines 132-169: an unrecognised option (taken to follow
\* the others) or an empty port list makes it return false.
parse_options_ok ==
    /\ Len(argv.ports) <= MAX_PORTS
    /\ ~argv.unknown
    /\ Len(argv.ports) # 0

\* main, lines 224-228
ParseOptions ==
    /\ pc = "parse_options"
    /\ logq = << >>
    /\ global_ports' = IF Len(argv.ports) <= MAX_PORTS THEN argv.ports
                       ELSE SubSeq(argv.ports, 1, MAX_PORTS)
    /\ global_port_count' = Len(global_ports')
    /\ global_log_file' = IF argv.log = "none" THEN "NULL" ELSE argv.log
    /\ global_family' = argv.family
    /\ IF parse_options_ok
         THEN pc' = "open_log" /\ ret' = ret
         ELSE pc' = "return" /\ ret' = 1
    /\ UNCHANGED <<argv, exitStatus, global_running, global_log,
                   global_level, wait_list, p, events, client, errno, handlers,
                   openFds, bound, backlog, conns, closeCalls, log, logq,
                   logpos, envCount>>

\* line 245: the banner is written with fprintf, not through log_message
Banner == [part |-> 0, rec |-> Record(-1, "\nnet-bouncer %d.%d.%d\n", "", 0), ctx |-> "main"]

\* main, lines 230-245
OpenLog ==
    /\ pc = "open_log"
    /\ logq = << >>
    /\ IF global_log_file # "NULL" /\ global_log_file = "unwritable"
         THEN /\ global_log' = "stderr"
              /\ errno' = EACCES
              /\ logq' = log_message(LOG_ERROR, "Unable to open log file '%s'", "", 0)
                           \o log_error("IO error", EACCES)
              /\ ret' = 1
              /\ pc' = "return"
              /\ UNCHANGED <<openFds, log, p>>
         ELSE /\ IF global_log_file # "NULL"
                   THEN global_log' = "file" /\ openFds' = openFds \cup {NewFd(openFds)}
                   ELSE global_log' = "stderr" /\ openFds' = openFds
              /\ log' = Append(log, Banner)
              /\ p' = 0
              /\ pc' = "setup"
              /\ UNCHANGED <<errno, logq, ret>>
    /\ UNCHANGED <<argv, exitStatus, global_running, global_log_file,
                   global_level, global_family, global_ports, global_port_count,
                   wait_list, events, client, handlers, bound, backlog, conns,
                   closeCalls, logpos, envCount>>

BoundPorts == { b[2] : b \in bound }

\* the test of line 173 with the family left unchecked
InvalidArgsPortOnly(port, family) == port <= 0 \/ port > MAX_PORT_NUMBER

\* line 173: the arguments create_server refuses
InvalidArgs(port, family) ==
    port <= 0 \/ port > MAX_PORT_NUMBER \/ (family # AF_INET /\ family # AF_INET6)

\* create_server, lines 171-220.  failing names the system call the
\* environment makes fail, if any; bind also fails when one of the
\* process's own listeners already holds the port, and when the address
\* built from global_family (lines 187-204) is not of the family the socket
\* was created with (line 178).  The result is the return value and what
\* the call leaves behind.
create_server(port, family, max_connections, failing) ==
    LET conn == NewFd(openFds)
        warn == IF failing = "setsockopt"
                  THEN log_message(LOG_WARNING, "Unable to make the address reusable; %s", "", 0)
                  ELSE << >>
        same == [value |-> 0, open |-> openFds, bound |-> bound, closes |-> << >>]
    IN  IF InvalidArgs(port, family)
          THEN [same EXCEPT !.value = -EINVAL] @@ [logs |-> << >>]
        ELSE IF failing = "socket"
          THEN [same EXCEPT !.value = -1] @@ [logs |-> << >>]
        ELSE IF \/ failing = "bind"
                \/ port \in BoundPorts
                \/ family # global_family
                \/ failing = "listen"
          THEN [same EXCEPT !.value = -1, !.closes = <<conn>>] @@ [logs |-> warn]
        ELSE [value |-> conn, open |-> openFds \cup {conn},
              bound |-> bound \cup {<<conn, port>>}, closes |-> << >>, logs |-> warn]

\* the test of line 254 catching only the -1 of a failed system call
SetupFailedMinusOne(fd) == fd = -1

\* line 254
SetupFailed(fd) == fd < 0

\* main, lines 250-260: one iteration of the listener setup loop
SetupStep ==
    /\ pc = "setup"
    /\ logq = << >>
    /\ IF global_port_count > p
         THEN \E failing \in {"none", "socket", "setsockopt", "bind", "listen"} :
                /\ failing = "setsockopt" => envCount < MaxEnv
                /\ LET r == create_server(global_ports[p + 1], global_family,
                                          MAX_CONNECTIONS, failing)
                   IN  /\ wait_list' = [ i \in 0..p |->
                                            IF i = p
                                              THEN [fd |-> r.value, events |-> {POLLIN},
                                                    revents |-> {}]
                                              ELSE wait_list[i] ]
                       /\ openFds' = r.open
                       /\ bound' = r.bound
                       /\ closeCalls' = closeCalls \o r.closes
                       /\ envCount' = IF failing = "setsockopt" THEN envCount + 1 ELSE envCount
                       /\ IF SetupFailed(r.value)
                            THEN /\ logq' = r.logs \o log_error("Unable to create socket server", r.value)
                                 /\ ret' = 1
                                 /\ pc' = "return"
                                 /\ p' = p
                            ELSE /\ logq' = r.logs \o log_message(LOG_INFO,
                                               "Listening to any address on the port %d", "",
                                               global_ports[p + 1])
                                 /\ p' = p + 1
                                 /\ UNCHANGED <<ret, pc>>
         ELSE /\ pc' = "sigaction_SIGTERM"
              /\ UNCHANGED <<wait_list, openFds, bound, closeCalls, envCount, logq, ret, p>>
    /\ UNCHANGED <<argv, exitStatus, global_running, global_log_file,
                   global_log, global_level, global_family, global_ports,
                   global_port_count, events, client, errno, handlers, backlog,
                   conns, log, logpos>>

\* main, lines 263-268: one sigaction call
Sigaction(at, sig, next) ==
    /\ pc = at
    /\ logq = << >>
    /\ handlers' = handlers \cup {sig}
    /\ pc' = next
    /\ UNCHANGED <<argv, ret, exitStatus, global_running,
                   global_log_file, global_log, global_level, global_family,
                   global_ports, global_port_count, wait_list, p, events, client,
                   errno, openFds, bound, backlog, conns, closeCalls, log, logq,
                   logpos, envCount>>

InstallHandlers ==
    \/ Sigaction("sigaction_SIGTERM", SIGTERM, "sigaction_SIGABRT")
    \/ Sigaction("sigaction_SIGABRT", SIGABRT, "sigaction_SIGINT")
    \/ Sigaction("sigaction_SIGINT", SIGINT, "while")

(***************************************************************************)
(* Event loop.                                                             *)
(***************************************************************************)
Listeners == 0..(global_port_count - 1)

\* the listeners poll() finds readable: those with a connection waiting
Ready == { i \in Listeners : backlog[i] # << >> }

\* what main() does when poll() has returned -1: lines 274-278
AfterPollFailure(err) ==
    /\ events' = -1
    /\ errno' = err
    /\ logq' = log_error("Error waiting connection", err)
    /\ p' = 0
    /\ pc' = "close_listeners"

\* what main() does when accept() has returned -1: lines 290-294; the
\* break leaves the for loop, not the while loop
AfterAcceptFailure(err) ==
    /\ client' = -1
    /\ errno' = err
    /\ logq' = log_error("Error accepting connection", err)
    /\ pc' = "while"

\* a loop test that never sees the flag
WhileCondAlways == TRUE

\* line 271: the test of the event loop
WhileCond == global_running

\* line 271: the test of the while loop
While ==
    /\ pc = "while"
    /\ logq = << >>
    /\ IF WhileCond
         THEN pc' = "poll" /\ p' = p
         ELSE pc' = "close_listeners" /\ p' = 0
    /\ UNCHANGED <<argv, ret, exitStatus, global_running,
                   global_log_file, global_log, global_level, global_family,
                   global_ports, global_port_count, wait_list, events, client,
                   errno, handlers, openFds, bound, backlog, conns, closeCalls,
                   log, logq, logpos, envCount>>

\* line 273: poll() returns because listeners are ready.  It rewrites the
\* revents of the first global_port_count entries; err is a listener on
\* which it reports an error condition instead of, or besides, POLLIN.
PollReady ==
    /\ pc \in {"poll", "in_poll"}
    /\ logq = << >>
    /\ \E err \in SUBSET Listeners :
         /\ Cardinality(err) <= 1
         /\ err # {} => envCount < MaxEnv
         /\ Ready \cup err # {}
         /\ wait_list' = [ i \in DOMAIN wait_list |->
                             IF i \in Listeners
                               THEN [wait_list[i] EXCEPT !.revents =
                                        (IF i \in Ready THEN {POLLIN} ELSE {})
                                          \cup (IF i \in err THEN {POLLERR} ELSE {})]
                               ELSE wait_list[i] ]
         /\ events' = Cardinality(Ready \cup err)
         /\ envCount' = envCount + Cardinality(err)
    /\ p' = 0
    /\ pc' = "scan"
    /\ UNCHANGED <<argv, ret, exitStatus, global_running,
                   global_log_file, global_log, global_level, global_family,
                   global_ports, global_port_count, client, errno, handlers,
                   openFds, bound, backlog, conns, closeCalls, log, logq, logpos>>

\* line 273: poll() finds no listener ready and puts the process to sleep
\* (the timeout is -1)
PollBlock ==
    /\ pc = "poll"
    /\ logq = << >>
    /\ Ready = {}
    /\ pc' = "in_poll"
    /\ UNCHANGED <<argv, ret, exitStatus, global_running, global_log_file,
                   global_log, global_level, global_family, global_ports,
                   global_port_count, wait_list, p, events, client, errno,
                   handlers, openFds, bound, backlog, conns, closeCalls, log,
                   logq, logpos, envCount>>

\* line 273: poll() fails for a reason other than a signal
PollFail ==
    /\ pc = "poll"
    /\ logq = << >>
    /\ envCount < MaxEnv
    /\ envCount' = envCount + 1
    /\ AfterPollFailure(ENOMEM)
    /\ UNCHANGED <<argv, ret, exitStatus, global_running,
                   global_log_file, global_log, global_level, global_family,
                   global_ports, global_port_count, wait_list, client, handlers,
                   openFds, bound, backlog, conns, closeCalls, log, logpos>>

\* a scan that stops one listener short
ScanCondStopsEarly == p < global_port_count - 1 /\ events > 0

\* line 280: the condition of the dispatch scan
ScanCond == p <= global_port_count /\ events > 0

\* line 282: the revents read at index p; past the end of the array the
\* read yields whatever lies there
ReventsAt(i) ==
    IF i < MAX_PORTS THEN {Entry(i).revents} ELSE SUBSET {POLLIN, POLLERR}

\* lines 280-285: one iteration of the dispatch scan up to the accept
Scan ==
    /\ pc = "scan"
    /\ logq = << >>
    /\ IF ScanCond
         THEN \E r \in ReventsAt(p) :
                IF POLLIN \notin r
                  THEN /\ p' = p + 1
                       /\ UNCHANGED <<events, wait_list, pc>>
                  ELSE /\ events' = events - 1
                       /\ wait_list' = IF p \in DOMAIN wait_list
                                         THEN [wait_list EXCEPT ![p].revents = {}]
                                         ELSE wait_list
                       /\ pc' = "accept"
                       /\ p' = p
         ELSE /\ pc' = "while"
              /\ UNCHANGED <<events, wait_list, p>>
    /\ UNCHANGED <<argv, ret, exitStatus, global_running,
                   global_log_file, global_log, global_level, global_family,
                   global_ports, global_port_count, client, errno, handlers,
                   openFds, bound, backlog, conns, closeCalls, log, logq,
                   logpos, envCount>>

\* the local port of the socket behind a descriptor
LocalPort(fd) == CHOOSE q \in BoundPorts \cup {0} :
                    IF \E b \in bound : b[1] = fd THEN <<fd, q>> \in bound ELSE q = 0

\* connection records demoted to DEBUG
LogConnectionDebug(source, address) ==
    IF global_family = AF_INET6
      THEN log_connection_ipv6(LOG_DEBUG, source, address)
      ELSE log_connection_ipv4(LOG_DEBUG, source, address)

\* lines 296-299: the record written for an accepted connection
LogConnection(source, address) ==
    IF global_family = AF_INET6
      THEN log_connection_ipv6(LOG_INFO, source, address)
      ELSE log_connection_ipv4(LOG_INFO, source, address)

\* the text inet_ntop leaves in address[]: lines 100 and 107
AddressText(source) ==
    IF global_family = AF_INET6
      THEN inet_ntop(source.len, source.addr, SizeofSockaddrIn6)
      ELSE inet_ntop(source.len, source.addr, SizeofSockaddrIn)

\* lines 289, 296-299: accept() returns a connection, which is logged
AcceptOk ==
    /\ pc \in {"accept", "in_accept"}
    /\ logq = << >>
    /\ p \in Listeners
    /\ backlog[p] # << >>
    /\ LET source == Head(backlog[p])
           fd == NewFd(openFds)
       IN  /\ client' = fd
           /\ openFds' = openFds \cup {fd}
           /\ backlog' = [backlog EXCEPT ![p] = Tail(@)]
           /\ conns' = Append(conns, [listener |-> p,
                                      lport |-> LocalPort(wait_list[p].fd),
                                      fd |-> fd, peer |-> source,
                                      ops |-> <<"accept">>])
           /\ \E address \in AddressText(source) :
                logq' = LogConnection(source, address)
    /\ pc' = "close_client"
    /\ UNCHANGED <<argv, ret, exitStatus, global_running,
                   global_log_file, global_log, global_level, global_family,
                   global_ports, global_port_count, wait_list, p, events, errno,
                   handlers, bound, closeCalls, log, logpos, envCount>>

\* line 289: the listener is a blocking socket, so accept() puts the
\* process to sleep when no connection is waiting any more
AcceptBlock ==
    /\ pc = "accept"
    /\ logq = << >>
    /\ p \in Listeners
    /\ backlog[p] = << >>
    /\ pc' = "in_accept"
    /\ UNCHANGED <<argv, ret, exitStatus, global_running, global_log_file,
                   global_log, global_level, global_family, global_ports,
                   global_port_count, wait_list, p, events, client, errno,
                   handlers, openFds, bound, backlog, conns, closeCalls, log,
                   logq, logpos, envCount>>

\* line 289: accept() fails for a reason other than a signal
AcceptFail ==
    /\ pc = "accept"
    /\ logq = << >>
    /\ envCount < MaxEnv
    /\ envCount' = envCount + 1
    /\ AfterAcceptFailure(EMFILE)
    /\ UNCHANGED <<argv, ret, exitStatus, global_running,
                   global_log_file, global_log, global_level, global_family,
                   global_ports, global_port_count, wait_list, p, events,
                   handlers, openFds, bound, backlog, conns, closeCalls, log,
                   logpos>>

\* line 300 closing the listener instead of the accepted connection
CloseTargetListener == Entry(p).fd

\* line 300: the descriptor closed after the connection has been logged
CloseTarget == client

\* line 300 preceded by a read of what the client sent
ClientCallsWithRead == <<"read", "close">>

\* line 300: the system calls made on the accepted connection once its
\* record has been written
ClientCalls == <<"close">>

\* line 300 and the ++p of line 280
CloseClient ==
    /\ pc = "close_client"
    /\ logq = << >>
    /\ closeCalls' = Append(closeCalls, CloseTarget)
    /\ openFds' = openFds \ {CloseTarget}
    /\ bound' = { b \in bound : b[1] # CloseTarget }
    /\ conns' = [ i \in DOMAIN conns |->
                    IF conns[i].fd = CloseTarget /\ i = Len(conns)
                      THEN [conns[i] EXCEPT !.ops = @ \o ClientCalls]
                      ELSE conns[i] ]
    /\ p' = p + 1
    /\ pc' = "scan"
    /\ UNCHANGED <<argv, ret, exitStatus, global_running,
                   global_log_file, global_log, global_level, global_family,
                   global_ports, global_port_count, wait_list, events, client,
                   errno, handlers, backlog, log, logq, logpos, envCount>>

\* the condition of line 304 stopping one entry early
CloseCondShort == p < global_port_count - 1

\* line 304: the condition of the closing loop
CloseCond == p < global_port_count

\* lines 304-306: one iteration of the closing loop, or the return
CloseListeners ==
    /\ pc = "close_listeners"
    /\ logq = << >>
    /\ IF CloseCond
         THEN /\ closeCalls' = Append(closeCalls, wait_list[p].fd)
              /\ openFds' = openFds \ {wait_list[p].fd}
              /\ bound' = { b \in bound : b[1] # wait_list[p].fd }
              /\ p' = p + 1
              /\ UNCHANGED <<pc, ret>>
         ELSE /\ ret' = 0
              /\ pc' = "return"
              /\ UNCHANGED <<closeCalls, openFds, bound, p>>
    /\ UNCHANGED <<argv, exitStatus, global_running, global_log_file,
                   global_log, global_level, global_family, global_ports,
                   global_port_count, wait_list, events, client, errno, handlers,
                   backlog, conns, log, logq, logpos, envCount>>

\* the return statements of main(): lines 227, 239, 257, 306
Return ==
    /\ pc = "return"
    /\ logq = << >>
    /\ exitStatus' = ret
    /\ pc' = "done"
    /\ UNCHANGED <<argv, ret, global_running, global_log_file,
                   global_log, global_level, global_family, global_ports,
                   global_port_count, wait_list, p, events, client, errno,
                   handlers, openFds, bound, backlog, conns, closeCalls, log,
                   logq, logpos, envCount>>

\* lines 86, 91, 93-94: the next write of the record main() is logging
LogWrite ==
    /\ logq # << >>
    /\ log' = Append(log, Writes(Head(logq), "main")[logpos + 1])
    /\ IF logpos + 1 = 3
         THEN logq' = Tail(logq) /\ logpos' = 0
         ELSE logq' = logq /\ logpos' = logpos + 1
    /\ UNCHANGED <<argv, pc, ret, exitStatus, global_running,
                   global_log_file, global_log, global_level, global_family,
                   global_ports, global_port_count, wait_list, p, events, client,
                   errno, handlers, openFds, bound, backlog, conns, closeCalls,
                   envCount>>

(***************************************************************************)
(* Environment.                                                            *)
(***************************************************************************)
\* a client completes a connection to listener i.  The backlog is looked
\* at by poll() and accept() only, so arrivals after the event loop has
\* ended are left out.
Arrive(i, c) ==
    /\ pc \notin {"close_listeners", "return", "done"}
    /\ envCount < MaxEnv
    /\ i \in DOMAIN wait_list
    /\ \E b \in bound : b[1] = wait_list[i].fd
    /\ Len(backlog[i]) < MAX_CONNECTIONS
    /\ backlog' = [backlog EXCEPT ![i] = Append(@, c)]
    /\ envCount' = envCount + 1
    /\ UNCHANGED <<argv, pc, ret, exitStatus, global_running,
                   global_log_file, global_log, global_level, global_family,
                   global_ports, global_port_count, wait_list, p, events, client,
                   errno, handlers, openFds, bound, conns, closeCalls, log, logq,
                   logpos>>

\* a client resets its connection before it has been accepted
Withdraw(i) ==
    /\ pc # "done"
    /\ envCount < MaxEnv
    /\ backlog[i] # << >>
    /\ backlog' = [backlog EXCEPT ![i] = SubSeq(@, 1, Len(@) - 1)]
    /\ envCount' = envCount + 1
    /\ UNCHANGED <<argv, pc, ret, exitStatus, global_running,
                   global_log_file, global_log, global_level, global_family,
                   global_ports, global_port_count, wait_list, p, events, client,
                   errno, handlers, openFds, bound, conns, closeCalls, log, logq,
                   logpos>>

\* a handler that flips the flag
signal_handler_toggle(signum) ==
    /\ log' = log \o
         (IF Emits(LOG_WARNING)
            THEN Writes(Record(LOG_WARNING, "Caught signal %d!", "", signum), "handler")
            ELSE << >>)
    /\ global_running' = ~global_running

\* a handler that only clears the flag
signal_handler_flag_only(signum) ==
    /\ log' = log
    /\ global_running' = FALSE

\* signal_handler, lines 116-120
signal_handler(signum) ==
    /\ log' = log \o
         (IF Emits(LOG_WARNING)
            THEN Writes(Record(LOG_WARNING, "Caught signal %d!", "", signum), "handler")
            ELSE << >>)
    /\ global_running' = FALSE

\* Delivery of sig to the process.  A signal that finds main() asleep in
\* poll() or accept() makes the call return -1 with EINTR once the handler
\* has run (lines 263-268 install the handlers without SA_RESTART, and
\* poll() is never restarted).
Signal(sig) ==
    /\ pc # "done"
    /\ sig \in handlers
    /\ envCount < MaxEnv
    /\ envCount' = envCount + 1
    /\ signal_handler(sig)
    /\ IF pc = "in_poll"
         THEN AfterPollFailure(EINTR) /\ UNCHANGED client
         ELSE IF pc = "in_accept"
           THEN AfterAcceptFailure(EINTR) /\ UNCHANGED <<events, p>>
           ELSE UNCHANGED <<events, errno, logq, p, pc, client>>
    /\ UNCHANGED <<argv, ret, exitStatus, global_log_file, global_log,
                   global_level, global_family, global_ports, global_port_count,
                   wait_list, handlers, openFds, bound, backlog, conns,
                   closeCalls, logpos>>

Main ==
    \/ ParseOptions
    \/ OpenLog
    \/ SetupStep
    \/ InstallHandlers
    \/ While
    \/ PollReady
    \/ PollBlock
    \/ PollFail
    \/ Scan
    \/ AcceptOk
    \/ AcceptBlock
    \/ AcceptFail
    \/ CloseClient
    \/ CloseListeners
    \/ Return
    \/ LogWrite

Environment ==
    \/ \E i \in 0..(MaxArgPorts - 1), c \in Clients(global_family) : Arrive(i, c)
    \/ \E i \in 0..(MaxArgPorts - 1) : Withdraw(i)
    \/ \E sig \in Signals : Signal(sig)

Next == Main \/ Environment

Spec == Init /\ [][Next]_vars

(***************************************************************************)
(* Properties.                                                             *)
(***************************************************************************)
IsConnectionWrite(w) ==
    w.part = 2 /\ w.rec.fmt = "Connection from %s on port %d"

\* the message texts of the 'Connection from' records, in log order
ConnectionWrites == SelectSeq(log, IsConnectionWrite)

\* main() is inside the while loop of lines 271-302
InLoop == pc \in {"while", "poll", "in_poll", "scan", "accept", "in_accept",
                  "close_client"}

ListenerFds == { wait_list[i].fd : i \in DOMAIN wait_list }

IsListenerFd(fd) == fd \in ListenerFds

\* the close() calls made on listener descriptors, in order
ListenerCloses == SelectSeq(closeCalls, IsListenerFd)

\* C1: the port printed in every 'Connection from ... on port ...' record
\* is the local port of the listener that accepted the connection.
C1_LoggedPortIsLocalPort ==
    \A k \in 1..Len(ConnectionWrites) :
        k <= Len(conns) => ConnectionWrites[k].rec.num = conns[k].lport

\* C2: with the INFO threshold every accepted connection gets exactly one
\* 'Connection from' record: the records never outnumber the accepts, at
\* most the connection being logged lacks its record, and whenever main()
\* is not between an accept and its close the two counts are equal.
C2_OneRecordPerAccept ==
    global_level = LOG_INFO =>
        /\ Len(ConnectionWrites) <= Len(conns)
        /\ Len(conns) <= Len(ConnectionWrites) + 1
        /\ pc # "close_client" => Len(ConnectionWrites) = Len(conns)
        /\ \A k \in 1..Len(ConnectionWrites) :
               ConnectionWrites[k].rec.level = LOG_INFO

C2_Witness ==
    /\ pc = "in_poll"
    /\ Len(conns) = 2
    /\ Len(ConnectionWrites) = 2
    /\ conns[1].listener # conns[2].listener

\* C3: once a termination signal has been handled the program is never
\* left unable to take a step of its own before it has exited, and when
\* it has exited every listener is closed and the status is 0.
C3_SignalShutsDown ==
    global_running = FALSE =>
        /\ pc # "done" => ENABLED Main
        /\ pc = "done" => exitStatus = 0 /\ bound = {}

\* C4: once the handler has set the running flag to false, no further
\* connection is accepted.
C4_NoAcceptAfterShutdown ==
    [][ global_running = FALSE => Len(conns') = Len(conns) ]_vars

\* C5: when create_server has failed for an entry of the port set, main()
\* is on its way out with status 1, the handlers were never installed,
\* the event loop is not entered and nothing has been accepted or logged
\* as a connection.
C5_AllOrNothingStartup ==
    (\E i \in DOMAIN wait_list : wait_list[i].fd < 0) =>
        /\ pc \in {"return", "done"}
        /\ ret = 1
        /\ pc = "done" => exitStatus = 1
        /\ handlers = {}
        /\ conns = << >>
        /\ ConnectionWrites = << >>

C5_Witness ==
    /\ pc = "done"
    /\ exitStatus = 1
    /\ DOMAIN wait_list = 0..1
    /\ wait_list[1].fd < 0
    /\ wait_list[0].fd \in openFds
    /\ backlog[0] # << >>

\* a command line with a configuration error
ConfigError ==
    \/ Len(argv.ports) = 0
    \/ \E k \in DOMAIN argv.ports : argv.ports[k] < 1 \/ argv.ports[k] > MAX_PORT_NUMBER
    \/ argv.log = "unwritable"

\* C6: with a configuration error on the command line no listener socket
\* is ever created, and the exit status is a failure.
C6_ConfigErrorBeforeListeners ==
    ConfigError =>
        /\ bound = {}
        /\ pc = "done" => exitStatus # 0

\* C7: when the event loop has ended because poll failed for a reason
\* other than a signal, the exit status is not 0.
C7_RuntimeErrorExitsNonZero ==
    (pc = "done" /\ global_running /\ events < 0 /\ errno # EINTR) => exitStatus # 0

\* C8: while the closing loop runs the listeners closed so far are the
\* first p of wait_list, each once and in index order, and when main()
\* returns from it every listener has been closed exactly once, in index
\* order, and none is open.
C8_ListenersClosedOnceInOrder ==
    /\ pc = "close_listeners" =>
          /\ p <= global_port_count
          /\ ListenerCloses = [ k \in 1..p |-> wait_list[k - 1].fd ]
    /\ (pc \in {"return", "done"} /\ ret = 0) =>
          /\ ListenerCloses = [ k \in 1..global_port_count |-> wait_list[k - 1].fd ]
          /\ \A i \in Listeners : wait_list[i].fd \notin openFds
          /\ \A i, j \in Listeners : wait_list[i].fd = wait_list[j].fd => i = j
          /\ bound = {}

C8_Witness ==
    /\ pc = "done"
    /\ exitStatus = 0
    /\ global_port_count = 2
    /\ conns # << >>
    /\ Len(ListenerCloses) = 2

\* every entry of the port set has its own open, listening socket
OneListenerPerPort ==
    /\ DOMAIN wait_list = Listeners
    /\ \A i \in Listeners :
          /\ wait_list[i].fd \in openFds
          /\ <<wait_list[i].fd, global_ports[i + 1]>> \in bound
    /\ \A i, j \in Listeners : wait_list[i].fd = wait_list[j].fd => i = j
    /\ Cardinality(bound) = global_port_count

\* C9: whenever main() is in the event loop there are exactly
\* global_port_count open listeners, one per entry of the port set, and no
\* step taken inside the loop opens, closes or replaces one.
C9_ListenersStableInLoop ==
    [][ /\ InLoop' => OneListenerPerPort'
        /\ (InLoop /\ InLoop') =>
              /\ bound' = bound
              /\ [ i \in DOMAIN wait_list |-> wait_list[i].fd ]
                   = [ i \in DOMAIN wait_list' |-> wait_list'[i].fd ] ]_vars

C9_Witness ==
    /\ pc = "in_poll"
    /\ global_port_count = 2
    /\ conns # << >>
    /\ OneListenerPerPort

\* C10: the only operations made on an accepted connection are the accept
\* and one close; only the connection main() holds between the accept and
\* the close of line 300 is still open.
C10_NoDataExchanged ==
    \A k \in 1..Len(conns) :
        /\ conns[k].ops \in { <<"accept">>, <<"accept", "close">> }
        /\ (k < Len(conns) \/ pc # "close_client") =>
              conns[k].ops = <<"accept", "close">>

C10_Witness ==
    /\ conns # << >>
    /\ conns[Len(conns)].ops = <<"accept", "close">>
    /\ conns[Len(conns)].fd \notin openFds

(***************************************************************************)
(* log_message on its own: every threshold and every level, including    *)
(* values outside the enumeration, in calls made one after the other.     *)
(* Here argv holds the calls to make, p counts the calls made and the     *)
(* rest of the state stays as at entry to main().                         *)
(***************************************************************************)
MaxCalls == 2

LogCalls == [ fn : {"log_message", "log_connection_ipv4"},
              level : (LOG_ERROR - 1)..(LOG_DEBUG + 1) ]

\* the records one of the calls writes
CallRecords(c) ==
    IF c.fn = "log_connection_ipv4"
      THEN log_connection_ipv4(c.level, CHOOSE x \in Clients(AF_INET) : TRUE, "64.25.33.120")
      ELSE log_message(c.level, "%s", "", 0)

\* lines 86-94 for each record in turn, with nothing in between
AllWrites(recs) ==
    IF recs = << >> THEN << >> ELSE Writes(recs[1], "main")

LogInit ==
    /\ argv \in SeqsUpTo(LogCalls, MaxCalls)
    /\ global_level \in LOG_ERROR..LOG_DEBUG
    /\ pc = "log_message"
    /\ ret = 0
    /\ exitStatus = -1
    /\ global_running = TRUE
    /\ global_log_file = "NULL"
    /\ global_log = "stderr"
    /\ global_family = AF_INET
    /\ global_ports = << >>
    /\ global_port_count = 0
    /\ wait_list = << >>
    /\ p = 0
    /\ events = 0
    /\ client = 0
    /\ errno = 0
    /\ handlers = {}
    /\ openFds = {}
    /\ bound = {}
    /\ backlog = [ i \in 0..(MaxArgPorts - 1) |-> << >> ]
    /\ conns = << >>
    /\ closeCalls = << >>
    /\ log = << >>
    /\ logq = << >>
    /\ logpos = 0
    /\ envCount = 0

\* the next call of argv is made
LogCall ==
    /\ pc = "log_message"
    /\ p < Len(argv)
    /\ log' = log \o AllWrites(CallRecords(argv[p + 1]))
    /\ p' = p + 1
    /\ UNCHANGED <<argv, pc, ret, exitStatus, global_running, global_log_file,
                   global_log, global_level, global_family, global_ports,
                   global_port_count, wait_list, events, client, errno,
                   handlers, openFds, bound, backlog, conns, closeCalls, logq,
                   logpos, envCount>>

LogSpec == LogInit /\ [][LogCall]_vars

\* the complete records of the log: one per newline written
IsRecordEnd(w) == w.part = 3

RecordsIn(l) == SelectSeq(l, IsRecordEnd)

\* the calls among the first n of argv whose level is within 0..threshold
RECURSIVE PassingCalls(_)
PassingCalls(n) ==
    IF n = 0 THEN << >>
    ELSE PassingCalls(n - 1) \o
           (IF 0 <= argv[n].level /\ argv[n].level <= global_level
              THEN << argv[n] >> ELSE << >>)

\* C11: log_message emits exactly one record when 0 <= level <= threshold
\* and otherwise nothing: after any calls the log holds one record, of the
\* call's level, for each call with a level in that range, in call order,
\* and none for the others; with threshold ERROR it holds no INFO
\* connection record; with threshold INFO it holds no DEBUG record.
C11_ThresholdFilter ==
    pc = "log_message" =>
        /\ Len(log) = 3 * Len(PassingCalls(p))
        /\ \A k \in 1..Len(RecordsIn(log)) :
              RecordsIn(log)[k].rec.level = PassingCalls(p)[k].level
        /\ global_level = LOG_ERROR =>
              \A k \in 1..Len(ConnectionWrites) :
                  ConnectionWrites[k].rec.level # LOG_INFO
        /\ global_level = LOG_INFO =>
              \A k \in 1..Len(log) : log[k].rec.level \in {LOG_ERROR, LOG_WARNING, LOG_INFO}

C11_Witness ==
    /\ pc = "log_message"
    /\ global_level = LOG_ERROR
    /\ p = 2
    /\ argv[1] = [fn |-> "log_connection_ipv4", level |-> LOG_INFO]
    /\ argv[2] = [fn |-> "log_message", level |-> LOG_ERROR]
    /\ ConnectionWrites = << >>
    /\ Len(log) = 3

\* an ERROR record has been written or is being written
ErrorLogged ==
    \/ \E k \in DOMAIN log : log[k].rec.level = LOG_ERROR
    \/ \E k \in DOMAIN logq : logq[k].level = LOG_ERROR

\* C12: after a failed accept the event loop is over: main() is at the
\* loop test on its way out, in the closing loop or returning; it neither
\* polls nor accepts again.
C12_AcceptFailureEndsLoop ==
    client < 0 => pc \in {"while", "close_listeners", "return", "done"}

\* C13: while no signal has been handled and no poll or accept error has
\* occurred, a connection waiting on any listener never leaves main()
\* unable to take a step: the loop cannot be stuck short of accepting it.
C13_PendingConnectionServed ==
    (InLoop /\ global_running /\ ~ErrorLogged
       /\ \E i \in Listeners : backlog[i] # << >>) => ENABLED Main

\* C14: the loop sleeps only in poll: whenever main() calls accept on a
\* listener that poll reported ready, a connection is waiting there, and
\* main() is never asleep in accept.
C14_AcceptNeverBlocks ==
    pc \in {"accept", "in_accept"} => p \in Listeners /\ backlog[p] # << >>

\* C15: every record is one contiguous line: a write that is not the
\* newline of its record is followed in the log by the next write of the
\* same record, made from the same context.
C15_RecordsContiguous ==
    \A k \in 1..(Len(log) - 1) :
        log[k].part \in {1, 2} =>
            /\ log[k + 1].part = log[k].part + 1
            /\ log[k + 1].rec = log[k].rec
            /\ log[k + 1].ctx = log[k].ctx

IsHandlerWrite(w) == w.ctx = "handler"
HandlerWrites == SelectSeq(log, IsHandlerWrite)
IsCaughtSignal(rec) ==
    /\ rec.level = LOG_WARNING
    /\ rec.fmt = "Caught signal %d!"
    /\ rec.num \in Signals

C17_ScanIndexInBounds ==
    (pc = "scan" /\ ScanCond) => (0 <= p /\ p < global_port_count)

PollPcs == {"poll", "in_poll"}

\* C18: once the running flag is false, main() never arrives at the poll
\* call again: the while test is not passed with the flag false, so poll
\* returns at most once more (the call that was pending or about to be
\* made when the signal was handled).
C18_AtMostOneWakeAfterSignal ==
    [][ ~global_running => (pc' \in PollPcs => pc \in PollPcs) ]_vars

\* a connection was accepted after a signal had been handled, and the loop
\* has ended
C18_Witness ==
    /\ pc = "close_listeners"
    /\ ~global_running
    /\ \E k \in DOMAIN log : \E j \in DOMAIN log :
          /\ k < j
          /\ IsHandlerWrite(log[k])
          /\ IsConnectionWrite(log[j])

\* main() is inside the dispatch scan of one wake
ScanPcs == {"scan", "accept", "in_accept", "close_client"}

\* the listeners poll reported ready in this wake that have had no accept yet
ReadyLeft == { i \in Listeners : POLLIN \in wait_list[i].revents }

\* One step of a wake: accept is called at index p only on a listener
\* reported ready, whose report is consumed by the call; the scan moves on
\* from a listener only forwards, past a listener not reported ready without
\* an accept, and leaves no ready listener behind it.
ScanDiscipline ==
    /\ (pc = "scan" /\ pc' = "accept") =>
           /\ p \in ReadyLeft
           /\ ReadyLeft' = ReadyLeft \ {p}
           /\ p' = p
    /\ (pc \in {"accept", "in_accept"} /\ pc' \in ScanPcs) =>
           /\ p' = p
           /\ ReadyLeft' = ReadyLeft
    /\ (pc = "scan" /\ pc' = "scan" /\ p' # p) =>
           /\ p' = p + 1
           /\ p \notin ReadyLeft
           /\ ReadyLeft' = ReadyLeft
    /\ (pc = "close_client" /\ pc' = "scan") =>
           /\ p' = p + 1
           /\ ReadyLeft' = ReadyLeft
    /\ pc' \in ScanPcs => \A i \in ReadyLeft' : i >= p'

IsConnectionRecordEnd(w) ==
    w.part = 3 /\ w.rec.fmt = "Connection from %s on port %d"

\* the 'Connection from' records whose line is complete, in log order
ConnectionRecords == SelectSeq(log, IsConnectionRecordEnd)

\* C20: within a wake the scan index only grows, each accept is made on the
\* listener at the scan index, and when accept is called and when the scan
\* moves on from a listener the complete Connection record of every
\* connection accepted so far is in the log: the k-th Connection record is
\* that of the k-th accept, and within a wake accepts go by increasing
\* registration index.
C20_RecordsInRegistrationOrder ==
    [][ /\ (pc \in ScanPcs /\ pc' \in ScanPcs) => p' >= p
        /\ Len(conns') # Len(conns) =>
               /\ Len(conns') = Len(conns) + 1
               /\ conns'[Len(conns')].listener = p
               /\ p' = p
               /\ Len(ConnectionRecords) = Len(conns)
               /\ \A k \in 1..Len(conns) : conns'[k].listener = conns[k].listener
        /\ (pc = "close_client" /\ pc' = "scan") =>
               /\ p' = p + 1
               /\ Len(ConnectionRecords) = Len(conns)
        /\ (pc = "scan" /\ pc' = "accept") =>
               Len(ConnectionRecords) = Len(conns)
      ]_vars

\* the record of the connection accepted on listener 0 is complete and
\* the connection of listener 1 has been accepted and is being logged
C20_Witness ==
    /\ pc = "close_client"
    /\ p = 1
    /\ Len(conns) = 2
    /\ conns[1].listener = 0
    /\ conns[2].listener = 1
    /\ Len(ConnectionRecords) = 1
    /\ logq # << >>

\* the accepted connections on which close has not been called
OpenClients == { k \in DOMAIN conns : conns[k].ops = <<"accept">> }

\* C21: at most one accepted connection is open at a time, and it is the
\* one main() holds between its accept and the close of line 300: outside
\* that stretch (in poll, at an accept call, after the loop, at exit) no
\* accepted connection is open and the client's descriptor is closed.
C21_AtMostOneClientOpen ==
    /\ Cardinality(OpenClients) <= 1
    /\ \A k \in OpenClients :
          /\ k = Len(conns)
          /\ conns[k].fd = client
          /\ client \in openFds
    /\ pc # "close_client" =>
          /\ OpenClients = {}
          /\ conns # << >> => client \notin openFds

\* a signal has been handled while the second accepted connection is open
C21_Witness ==
    /\ pc = "close_client"
    /\ ~global_running
    /\ Len(conns) = 2
    /\ OpenClients = {2}
    /\ logq # << >>

(***************************************************************************)
(* create_server on its own: calls made one after the other with every    *)
(* kind of port and family, valid or not, and every failing system call.  *)
(* Here argv holds the arguments of the call just made, p counts the      *)
(* calls and ret is the value returned.                                    *)
(***************************************************************************)
MaxCreates == 2

CreatePorts == {-1, 0, 1, 22, MAX_PORT_NUMBER, MAX_PORT_NUMBER + 1}

CreateFamilies == {AF_INET, AF_INET6, "AF_UNIX"}

Failures == {"none", "socket", "setsockopt", "bind", "listen"}

CreateInit ==
    /\ argv = << >>
    /\ global_family \in {AF_INET, AF_INET6}
    /\ global_level = LOG_INFO
    /\ pc = "create_server"
    /\ ret = 0
    /\ exitStatus = -1
    /\ global_running = TRUE
    /\ global_log_file = "NULL"
    /\ global_log = "stderr"
    /\ global_ports = << >>
    /\ global_port_count = 0
    /\ wait_list = << >>
    /\ p = 0
    /\ events = 0
    /\ client = 0
    /\ errno = 0
    /\ handlers = {}
    /\ openFds = {}
    /\ bound = {}
    /\ backlog = [ i \in 0..(MaxArgPorts - 1) |-> << >> ]
    /\ conns = << >>
    /\ closeCalls = << >>
    /\ log = << >>
    /\ logq = << >>
    /\ logpos = 0
    /\ envCount = 0

\* one call of create_server
CreateCall ==
    /\ pc = "create_server"
    /\ p < MaxCreates
    /\ \E port \in CreatePorts, family \in CreateFamilies, failing \in Failures :
         LET r == create_server(port, family, MAX_CONNECTIONS, failing)
         IN  /\ argv' = [port |-> port, family |-> family, failing |-> failing]
             /\ ret' = r.value
             /\ openFds' = r.open
             /\ bound' = r.bound
             /\ closeCalls' = closeCalls \o r.closes
             /\ log' = log \o AllWrites(r.logs)
    /\ p' = p + 1
    /\ UNCHANGED <<pc, exitStatus, global_running, global_log_file,
                   global_log, global_level, global_family, global_ports,
                   global_port_count, wait_list, events, client, errno,
                   handlers, backlog, conns, logq, logpos, envCount>>

CreateSpec == CreateInit /\ [][CreateCall]_vars

\* C22: a call of create_server with a port outside 1..65535 or a family
\* that is neither IPv4 nor IPv6 returns a negative value and creates no
\* socket (none opened, none closed); a call in which socket, bind or
\* listen fails returns a negative value; every call returning a negative
\* value leaves the open and the listening sockets as they were; a call
\* returning a non-negative value returns a descriptor that was not open,
\* and leaves exactly that one more socket open, bound to the port and
\* listening.
C22_CreateServerContract ==
    [][ pc = "create_server" =>
          /\ (argv'.port < 1 \/ argv'.port > MAX_PORT_NUMBER
                \/ argv'.family \notin {AF_INET, AF_INET6}) =>
                 /\ ret' < 0
                 /\ closeCalls' = closeCalls
          /\ argv'.failing \in {"socket", "bind", "listen"} => ret' < 0
          /\ ret' < 0 => openFds' = openFds /\ bound' = bound
          /\ ret' >= 0 =>
                 /\ ret' \notin openFds
                 /\ openFds' = openFds \cup {ret'}
                 /\ bound' = bound \cup {<<ret', argv'.port>>}
                 /\ closeCalls' = closeCalls
      ]_vars

\* a listener is open and a later call, with an invalid family, has left
\* everything as it was
C22_Witness ==
    /\ pc = "create_server"
    /\ p = 2
    /\ argv.family = "AF_UNIX"
    /\ argv.port = 22
    /\ ret < 0
    /\ Cardinality(openFds) = 1
    /\ bound = {<<STDERR_FILENO + 1, MAX_PORT_NUMBER>>}
    /\ closeCalls = << >>

\* C23: the running flag is true until a handler is installed, the only
\* step that changes it is a run of the signal handler (which leaves its
\* record in the log) taking it from true to false, and once false it
\* stays false, however many signals follow; no step of main() writes it.
C23_RunningFlagMonotone ==
    [][ /\ handlers = {} => global_running
        /\ handlers' = {} => global_running'
        /\ ~global_running => ~global_running'
        /\ global_running' # global_running =>
               Len(HandlerWrites') = Len(HandlerWrites) + 3
        /\ Len(HandlerWrites') = Len(HandlerWrites) =>
               global_running' = global_running
      ]_vars

\* two signals have been handled during the loop
C23_Witness ==
    /\ InLoop
    /\ ~global_running
    /\ Len(HandlerWrites) = 6

====
